---- MODULE Spec2Model ----
(***************************************************************************)
(* Model of gui_memorial_descritivo_v2.py: the MemorialGUI_V2 object, its  *)
(* presentation-context handlers (process_memorial, clear_all, the field   *)
(* edits) and the background worker process_thread, one action per         *)
(* statement group of the worker that reads or writes shared state or      *)
(* calls a pipeline stage.                                                  *)
(***************************************************************************)
EXTENDS Integers, Sequences, FiniteSets, TLC

\* ------------------------------------------------------------------ bounds
\* Longest raw protocol-number text the formatter is evaluated on.
MaxLen == 9
\* Number of OS threads the model provides for threading.Thread objects.
MaxThreads == 2
\* Largest number of rows the extraction service returns in a table.
MaxRows == 1

\* --------------------------------------------------------------- constants
\* Canonical width of a formatted protocol number ("00229885").
Width == 8

Threads == 1..MaxThreads

Digits == {"0", "1", "2", "3", "4", "5", "6", "7", "8", "9"}

\* Values the GEMINI_API_KEY variable / the API-key entry can hold.
ApiKeys == {"", "AIza"}

\* Paths are <<directory, stem, extension>>; the empty StringVar is <<>>.
NoPath == <<>>
PdfPaths == {<<"docs", "a", ".pdf">>, <<"docs", "gone", ".pdf">>}
\* Files that exist on the local disk (os.path.exists).
ExistingFiles == {<<"docs", "a", ".pdf">>}

\* Raw texts the user can type into the protocol-number entry: empty, without
\* any digit, and a valid number written with a separator.
ProtocolInputs ==
    { <<>>,
      <<"x">>,
      <<"2", "2", "9", ".", "8", "8", "5">> }

\* Shapes of the payload the extraction service can answer with.
Payloads == {"table", "no_table", "malformed"}

\* self.table_data: None, or the dict returned by the extraction functions
\* (data = number of rows of its 'data' list).
None == [kind |-> "None", data |-> 0]
Dict(n) == [kind |-> "dict", data |-> n]

VARIABLES
    api_key,         \* self.api_key (StringVar)
    modo_operacao,   \* self.modo_operacao: "normal" or "incra"
    pdf_path,        \* self.pdf_path
    prenotacao,      \* self.prenotacao
    gerar_excel,     \* self.gerar_excel (BooleanVar)
    gerar_word,      \* self.gerar_word (BooleanVar)
    progress_value,  \* self.progress_value (IntVar)
    status_text,     \* self.status_text (StringVar)
    processing,      \* self.processing, the in-flight flag
    table_data,      \* self.table_data
    dialog,          \* the message box process_memorial has open, or "none"
    w,               \* the worker threads: locals and position of process_thread
    calc             \* one evaluation of the formatter and the shard locator

vars == << api_key, modo_operacao, pdf_path, prenotacao, gerar_excel, gerar_word,
           progress_value, status_text, processing, table_data, dialog, w, calc >>

gui_fields == << api_key, modo_operacao, pdf_path, prenotacao, gerar_excel, gerar_word >>

\* ------------------------------------------------------------ pure helpers
RECURSIVE Str(_)
\* The Python str of a sequence of characters.
Str(s) == IF s = <<>> THEN "" ELSE Head(s) \o Str(Tail(s))

RECURSIVE Zeros(_)
Zeros(n) == IF n <= 0 THEN <<>> ELSE <<"0">> \o Zeros(n - 1)

IsDigit(c) == c \in Digits

\* formatar_prenotacao measuring and padding the raw text, separators included.
formatar_prenotacao_KeepsSeparators(raw) ==
    IF Len(raw) = 0 \/ Len(raw) > Width
    THEN [ok |-> FALSE, value |-> <<>>]
    ELSE [ok |-> TRUE, value |-> Zeros(Width - Len(raw)) \o raw]

\* formatar_prenotacao refusing a number that already has Width digits.
formatar_prenotacao_StrictWidth(raw) ==
    LET digits == SelectSeq(raw, IsDigit)
    IN  IF Len(digits) = 0 \/ Len(digits) >= Width
        THEN [ok |-> FALSE, value |-> <<>>]
        ELSE [ok |-> TRUE, value |-> Zeros(Width - Len(digits)) \o digits]

\* formatar_prenotacao: strips every non-digit, fails when nothing is left or
\* more than Width digits are left, pads with leading zeros to Width.
formatar_prenotacao(raw) ==
    LET digits == SelectSeq(raw, IsDigit)
    IN  IF Len(digits) = 0 \/ Len(digits) > Width
        THEN [ok |-> FALSE, value |-> <<>>]
        ELSE [ok |-> TRUE, value |-> Zeros(Width - Len(digits)) \o digits]

\* int(c) of a digit character.
DigitValue(c) ==
    CASE c = "0" -> 0 [] c = "1" -> 1 [] c = "2" -> 2 [] c = "3" -> 3 [] c = "4" -> 4
      [] c = "5" -> 5 [] c = "6" -> 6 [] c = "7" -> 7 [] c = "8" -> 8 [] c = "9" -> 9

RECURSIVE Num(_)
\* int(s) of a string of digits.
Num(s) == IF s = <<>> THEN 0
          ELSE 10 * Num(SubSeq(s, 1, Len(s) - 1)) + DigitValue(s[Len(s)])

\* calcular_pasta_milhar with the thousand rounded on a shifted number.
calcular_pasta_milhar_OffByOne(n) == ((n - 1) \div 1000) * 1000

\* calcular_pasta_milhar: the first number of the thousand-range n lies in.
calcular_pasta_milhar(n) == (n \div 1000) * 1000

\* Path(p).parent; Path("").parent is ".".
Parent(p) == IF p = NoPath THEN "." ELSE p[1]

\* The per-protocol-number staging directory copiar_para_downloads creates.
StagingDir(formatada) == "Downloads/" \o Str(formatada)

\* extract_table_from_pdf / extrair_memorial_incra: the service's payload is
\* validated; anything but a payload with a table field raises.  A missing
\* credential or an unreadable document raises too.
extract_table(doc, key, payload, rows) ==
    IF key = "" \/ doc = NoPath \/ payload # "table"
    THEN [ok |-> FALSE, table |-> None]
    ELSE [ok |-> TRUE, table |-> Dict(rows)]

\* ------------------------------------------------------------ worker state
\* A thread that was never started.  trace, emitted, written, probe, payload,
\* exc, result and err record what the run did; the other fields are the
\* locals of process_thread.
Fresh ==
    [ pc         |-> "idle",
      api_key    |-> "",
      mode       |-> "",
      pdf_path   |-> NoPath,
      prenotacao |-> <<>>,
      formatada  |-> <<>>,
      arquivo    |-> NoPath,
      output_dir |-> "",
      prefixo    |-> "",
      gerados    |-> <<>>,
      trace      |-> <<>>,
      emitted    |-> <<>>,
      written    |-> {},
      probe      |-> "none",
      payload    |-> "none",
      exc        |-> "none",
      result     |-> "none",
      err        |-> "none" ]

Running(t) == w[t].pc \notin {"idle", "ended"}

\* No evaluation of the pure functions under way.
NoResult == [ok |-> FALSE, value |-> <<>>]
NoCalc == [stage |-> "idle", raw |-> <<>>, fmt |-> NoResult, shard |-> -1,
           again |-> NoResult]

Init ==
    /\ calc = NoCalc
    /\ api_key \in ApiKeys
    /\ modo_operacao = "normal"
    /\ pdf_path = NoPath
    /\ prenotacao = <<>>
    /\ gerar_excel = TRUE
    /\ gerar_word = TRUE
    /\ progress_value = 0
    /\ status_text = "Aguardando..."
    /\ processing = FALSE
    /\ table_data = None
    /\ dialog = "none"
    /\ w = [t \in Threads |-> Fresh]

\* ------------------------------------------------- presentation handlers
\* The user types into (or clears) the API-key entry.
SetApiKey(k) ==
    /\ api_key' = k
    /\ dialog' = "none"
    /\ UNCHANGED << calc, modo_operacao, pdf_path, prenotacao, gerar_excel, gerar_word,
                    progress_value, status_text, processing, table_data, w >>

\* A mode radio button is clicked: the variable is set, atualizar_modo swaps
\* the visible frame.
atualizar_modo(m) ==
    /\ modo_operacao' = m
    /\ dialog' = "none"
    /\ UNCHANGED << calc, api_key, pdf_path, prenotacao, gerar_excel, gerar_word,
                    progress_value, status_text, processing, table_data, w >>

\* select_pdf / handle_drop: a non-empty path is stored.
select_pdf(p) ==
    /\ pdf_path' = p
    /\ dialog' = "none"
    /\ UNCHANGED << calc, api_key, modo_operacao, prenotacao, gerar_excel, gerar_word,
                    progress_value, status_text, processing, table_data, w >>

\* The user types into the protocol-number entry.
EditPrenotacao(s) ==
    /\ prenotacao' = s
    /\ dialog' = "none"
    /\ UNCHANGED << calc, api_key, modo_operacao, pdf_path, gerar_excel, gerar_word,
                    progress_value, status_text, processing, table_data, w >>

ToggleExcel ==
    /\ gerar_excel' = ~gerar_excel
    /\ dialog' = "none"
    /\ UNCHANGED << calc, api_key, modo_operacao, pdf_path, prenotacao, gerar_word,
                    progress_value, status_text, processing, table_data, w >>

ToggleWord ==
    /\ gerar_word' = ~gerar_word
    /\ dialog' = "none"
    /\ UNCHANGED << calc, api_key, modo_operacao, pdf_path, prenotacao, gerar_excel,
                    progress_value, status_text, processing, table_data, w >>

clear_all ==
    /\ pdf_path' = NoPath
    /\ prenotacao' = <<>>
    /\ progress_value' = 0
    /\ status_text' = "Aguardando..."
    /\ table_data' = None
    /\ dialog' = "none"
    /\ UNCHANGED << calc, api_key, modo_operacao, gerar_excel, gerar_word, processing, w >>

\* validate_inputs without the check that an output format is selected.
validate_inputs_NoOutputCheck ==
    IF api_key = "" THEN "erro_api_key"
    ELSE IF modo_operacao = "normal" /\ pdf_path = NoPath THEN "erro_sem_pdf"
    ELSE IF modo_operacao = "normal" /\ pdf_path \notin ExistingFiles
         THEN "erro_nao_encontrado"
    ELSE IF modo_operacao # "normal" /\ prenotacao = <<>> THEN "erro_sem_prenotacao"
    ELSE "ok"

\* validate_inputs: the message box of the first check that fails, or "ok".
validate_inputs ==
    IF api_key = "" THEN "erro_api_key"
    ELSE IF modo_operacao = "normal" /\ pdf_path = NoPath THEN "erro_sem_pdf"
    ELSE IF modo_operacao = "normal" /\ pdf_path \notin ExistingFiles
         THEN "erro_nao_encontrado"
    ELSE IF modo_operacao # "normal" /\ prenotacao = <<>> THEN "erro_sem_prenotacao"
    ELSE IF ~gerar_excel /\ ~gerar_word THEN "aviso_sem_saida"
    ELSE "ok"

\* process_memorial while self.processing is set: a warning, nothing else.
ProcessMemorialBusy ==
    /\ processing
    /\ dialog' = "aviso_em_andamento"
    /\ UNCHANGED << calc, gui_fields, progress_value, status_text, processing,
                    table_data, w >>

\* process_memorial with inputs validate_inputs refuses.
ProcessMemorialInvalid ==
    /\ ~processing
    /\ validate_inputs # "ok"
    /\ dialog' = validate_inputs
    /\ UNCHANGED << calc, gui_fields, progress_value, status_text, processing,
                    table_data, w >>

\* The thread object threading.Thread(...) creates: the first one not running.
NewThread == CHOOSE t \in Threads :
                 /\ ~Running(t)
                 /\ \A u \in Threads : ~Running(u) => t <= u

\* process_memorial without the check of self.processing.
ProcessMemorialStart_NoFlagCheck ==
    /\ validate_inputs = "ok"
    /\ \E t \in Threads : ~Running(t)
    /\ processing' = TRUE
    /\ w' = [w EXCEPT ![NewThread] = [Fresh EXCEPT !.pc = "t_api_key"]]
    /\ dialog' = "none"
    /\ UNCHANGED << calc, gui_fields, progress_value, status_text, table_data >>

\* process_memorial accepted: the flag is set and the worker started.
ProcessMemorialStart ==
    /\ ~processing
    /\ validate_inputs = "ok"
    /\ \E t \in Threads : ~Running(t)
    /\ processing' = TRUE
    /\ w' = [w EXCEPT ![NewThread] = [Fresh EXCEPT !.pc = "t_api_key"]]
    /\ dialog' = "none"
    /\ UNCHANGED << calc, gui_fields, progress_value, status_text, table_data >>

process_memorial ==
    \/ ProcessMemorialBusy
    \/ ProcessMemorialInvalid
    \/ ProcessMemorialStart

\* ------------------------------------------------------- process_thread
At(t, l) == w[t].pc = l

Set(t, r) == w' = [w EXCEPT ![t] = r]

\* update_progress(value, status): both variables are written.
update_progress(value, status) ==
    /\ progress_value' = value
    /\ status_text' = status

\* r after update_progress(value, status) and a jump to l.
Emit(r, value, status, l) ==
    [r EXCEPT !.emitted = Append(@, <<value, status>>), !.pc = l]

\* r after the stage function named stage has been called.
Call(r, stage) == [r EXCEPT !.trace = Append(@, stage)]

\* An exception e leaves the try body for the except clause.
Raise(r, e) == [r EXCEPT !.pc = "except", !.exc = e]

\* api_key = self.api_key.get()
ReadApiKey(t) ==
    /\ At(t, "t_api_key")
    /\ Set(t, [w[t] EXCEPT !.api_key = api_key, !.pc = "t_modo"])
    /\ UNCHANGED << calc, gui_fields, progress_value, status_text, processing,
                    table_data, dialog >>

\* The mode test with its branches exchanged.
ReadModo_Swapped(t) ==
    /\ At(t, "t_modo")
    /\ Set(t, [w[t] EXCEPT !.mode = modo_operacao,
                           !.pc = IF modo_operacao = "normal"
                                  THEN "i_prenotacao" ELSE "n_pdf_path"])
    /\ UNCHANGED << calc, gui_fields, progress_value, status_text, processing,
                    table_data, dialog >>

\* if self.modo_operacao.get() == "normal": ... else: ...
ReadModo(t) ==
    /\ At(t, "t_modo")
    /\ Set(t, [w[t] EXCEPT !.mode = modo_operacao,
                           !.pc = IF modo_operacao = "normal"
                                  THEN "n_pdf_path" ELSE "i_prenotacao"])
    /\ UNCHANGED << calc, gui_fields, progress_value, status_text, processing,
                    table_data, dialog >>

\* ---- Modo Normal
\* pdf_path = self.pdf_path.get(); output_dir = Path(pdf_path).parent;
\* prefixo = "output"
NormalReadPath(t) ==
    /\ At(t, "n_pdf_path")
    /\ Set(t, [w[t] EXCEPT !.pdf_path = pdf_path,
                           !.output_dir = Parent(pdf_path),
                           !.prefixo = "output",
                           !.pc = "n_progress"])
    /\ UNCHANGED << calc, gui_fields, progress_value, status_text, processing,
                    table_data, dialog >>

NormalProgress(t) ==
    /\ At(t, "n_progress")
    /\ update_progress(10, "Conectando com API...")
    /\ Set(t, Emit(w[t], 10, "Conectando com API...", "n_extract"))
    /\ UNCHANGED << calc, gui_fields, processing, table_data, dialog >>

\* The extraction call wrapped so that a failure yields an empty table.
NormalExtract_Swallow(t) ==
    /\ At(t, "n_extract")
    /\ \E payload \in Payloads, rows \in 0..MaxRows :
          LET doc == IF w[t].pdf_path \in ExistingFiles THEN w[t].pdf_path ELSE NoPath
              res == extract_table(doc, w[t].api_key, payload, rows)
              r   == [Call(w[t], "extract") EXCEPT !.payload = payload]
          IN  /\ table_data' = IF res.ok THEN res.table ELSE Dict(0)
              /\ Set(t, [r EXCEPT !.pc = "count"])
    /\ UNCHANGED << calc, gui_fields, progress_value, status_text, processing, dialog >>

\* self.table_data = extract_table_from_pdf(pdf_path, api_key)
NormalExtract(t) ==
    /\ At(t, "n_extract")
    /\ \E payload \in Payloads, rows \in 0..MaxRows :
          LET doc == IF w[t].pdf_path \in ExistingFiles THEN w[t].pdf_path ELSE NoPath
              res == extract_table(doc, w[t].api_key, payload, rows)
              r   == [Call(w[t], "extract") EXCEPT !.payload = payload]
          IN  IF res.ok
              THEN /\ table_data' = res.table
                   /\ Set(t, [r EXCEPT !.pc = "count"])
              ELSE /\ table_data' = table_data
                   /\ Set(t, Raise(r, "ExtractionError"))
    /\ UNCHANGED << calc, gui_fields, progress_value, status_text, processing, dialog >>

\* ---- Modo INCRA
\* prenotacao = self.prenotacao.get()
IncraReadPrenotacao(t) ==
    /\ At(t, "i_prenotacao")
    /\ Set(t, [w[t] EXCEPT !.prenotacao = prenotacao, !.pc = "i_probe_progress"])
    /\ UNCHANGED << calc, gui_fields, progress_value, status_text, processing,
                    table_data, dialog >>

IncraProbeProgress(t) ==
    /\ At(t, "i_probe_progress")
    /\ update_progress(3, "Testando acesso a rede...")
    /\ Set(t, Emit(w[t], 3, "Testando acesso a rede...", "i_probe"))
    /\ UNCHANGED << calc, gui_fields, processing, table_data, dialog >>

\* The probe called but its result not tested.
IncraProbe_IgnoreResult(t) ==
    /\ At(t, "i_probe")
    /\ \E reachable \in BOOLEAN :
          Set(t, [Call(w[t], "probe") EXCEPT
                     !.probe = IF reachable THEN "ok" ELSE "down",
                     !.pc = "i_format_progress"])
    /\ UNCHANGED << calc, gui_fields, progress_value, status_text, processing,
                    table_data, dialog >>

\* if not testar_acesso_rede(): raise Exception(...)
IncraProbe(t) ==
    /\ At(t, "i_probe")
    /\ \E reachable \in BOOLEAN :
          LET r == [Call(w[t], "probe") EXCEPT
                        !.probe = IF reachable THEN "ok" ELSE "down"]
          IN  IF reachable
              THEN Set(t, [r EXCEPT !.pc = "i_format_progress"])
              ELSE Set(t, Raise(r, "NetworkUnavailable"))
    /\ UNCHANGED << calc, gui_fields, progress_value, status_text, processing,
                    table_data, dialog >>

IncraFormatProgress(t) ==
    /\ At(t, "i_format_progress")
    /\ update_progress(5, "Formatando prenotacao...")
    /\ Set(t, Emit(w[t], 5, "Formatando prenotacao...", "i_format"))
    /\ UNCHANGED << calc, gui_fields, processing, table_data, dialog >>

\* prenotacao_formatada = formatar_prenotacao(prenotacao)
IncraFormat(t) ==
    /\ At(t, "i_format")
    /\ LET f == formatar_prenotacao(w[t].prenotacao)
           r == Call(w[t], "format")
       IN  IF f.ok
           THEN Set(t, [r EXCEPT !.formatada = f.value, !.pc = "i_find_progress"])
           ELSE Set(t, Raise(r, "ValidationError"))
    /\ UNCHANGED << calc, gui_fields, progress_value, status_text, processing,
                    table_data, dialog >>

IncraFindProgress(t) ==
    /\ At(t, "i_find_progress")
    /\ update_progress(10, "Buscando arquivo na rede...")
    /\ Set(t, Emit(w[t], 10, "Buscando arquivo na rede...", "i_find"))
    /\ UNCHANGED << calc, gui_fields, processing, table_data, dialog >>

\* The search followed directly by the conversion: the file is not staged.
IncraFind_SkipStaging(t) ==
    /\ At(t, "i_find")
    /\ \E found \in BOOLEAN :
          LET r == Call(w[t], "find")
          IN  IF found
              THEN Set(t, [r EXCEPT
                              !.arquivo = <<"INCRA", Str(w[t].formatada), ".tif">>,
                              !.pc = "i_convert_progress"])
              ELSE Set(t, Raise(r, "NotFound"))
    /\ UNCHANGED << calc, gui_fields, progress_value, status_text, processing,
                    table_data, dialog >>

\* The search without the test of its result: staging follows in any case.
IncraFind_IgnoreMissing(t) ==
    /\ At(t, "i_find")
    /\ \E found \in BOOLEAN :
          LET r == Call(w[t], "find")
          IN  IF found
              THEN Set(t, [r EXCEPT
                              !.arquivo = <<"INCRA", Str(w[t].formatada), ".tif">>,
                              !.pc = "i_stage_progress"])
              ELSE Set(t, [r EXCEPT !.pc = "i_stage_progress"])
    /\ UNCHANGED << calc, gui_fields, progress_value, status_text, processing,
                    table_data, dialog >>

\* arquivo_tiff = buscar_arquivo_incra(prenotacao_formatada)
\* if not arquivo_tiff: raise Exception(...)
IncraFind(t) ==
    /\ At(t, "i_find")
    /\ \E found \in BOOLEAN :
          LET r == Call(w[t], "find")
          IN  IF found
              THEN Set(t, [r EXCEPT
                              !.arquivo = <<"INCRA", Str(w[t].formatada), ".tif">>,
                              !.pc = "i_stage_progress"])
              ELSE Set(t, Raise(r, "NotFound"))
    /\ UNCHANGED << calc, gui_fields, progress_value, status_text, processing,
                    table_data, dialog >>

IncraStageProgress(t) ==
    /\ At(t, "i_stage_progress")
    /\ update_progress(20, "Copiando para Downloads...")
    /\ Set(t, Emit(w[t], 20, "Copiando para Downloads...", "i_stage"))
    /\ UNCHANGED << calc, gui_fields, processing, table_data, dialog >>

\* arquivo_local = copiar_para_downloads(arquivo_tiff, prenotacao_formatada)
IncraStage(t) ==
    /\ At(t, "i_stage")
    /\ \E copied \in BOOLEAN :
          LET r     == Call(w[t], "stage")
              local == <<StagingDir(w[t].formatada), w[t].arquivo[2], w[t].arquivo[3]>>
          IN  IF copied
              THEN Set(t, [r EXCEPT !.arquivo = local,
                                    !.written = @ \cup {local},
                                    !.pc = "i_convert_progress"])
              ELSE Set(t, Raise(r, "IOError"))
    /\ UNCHANGED << calc, gui_fields, progress_value, status_text, processing,
                    table_data, dialog >>

\* The conversion entered without its progress update.
IncraConvertProgress_Silent(t) ==
    /\ At(t, "i_convert_progress")
    /\ Set(t, [w[t] EXCEPT !.pc = "i_convert"])
    /\ UNCHANGED << calc, gui_fields, progress_value, status_text, processing,
                    table_data, dialog >>

IncraConvertProgress(t) ==
    /\ At(t, "i_convert_progress")
    /\ update_progress(30, "Convertendo TIFF -> PDF...")
    /\ Set(t, Emit(w[t], 30, "Convertendo TIFF -> PDF...", "i_convert"))
    /\ UNCHANGED << calc, gui_fields, processing, table_data, dialog >>

\* A conversion failure that is recorded but does not leave the try body.
IncraConvert_Continue(t) ==
    /\ At(t, "i_convert")
    /\ \E converted \in BOOLEAN :
          LET r   == Call(w[t], "convert")
              pdf == <<w[t].arquivo[1], w[t].arquivo[2], ".pdf">>
          IN  IF converted
              THEN Set(t, [r EXCEPT !.pdf_path = pdf,
                                    !.written = @ \cup {pdf},
                                    !.pc = "i_extract_progress"])
              ELSE Set(t, [r EXCEPT !.exc = "ConversionError",
                                    !.pc = "i_extract_progress"])
    /\ UNCHANGED << calc, gui_fields, progress_value, status_text, processing,
                    table_data, dialog >>

\* pdf_path = converter_tiff_para_pdf(arquivo_local)
IncraConvert(t) ==
    /\ At(t, "i_convert")
    /\ \E converted \in BOOLEAN :
          LET r   == Call(w[t], "convert")
              pdf == <<w[t].arquivo[1], w[t].arquivo[2], ".pdf">>
          IN  IF converted
              THEN Set(t, [r EXCEPT !.pdf_path = pdf,
                                    !.written = @ \cup {pdf},
                                    !.pc = "i_extract_progress"])
              ELSE Set(t, Raise(r, "ConversionError"))
    /\ UNCHANGED << calc, gui_fields, progress_value, status_text, processing,
                    table_data, dialog >>

IncraExtractProgress(t) ==
    /\ At(t, "i_extract_progress")
    /\ update_progress(40, "Extraindo dados...")
    /\ Set(t, Emit(w[t], 40, "Extraindo dados...", "i_extract"))
    /\ UNCHANGED << calc, gui_fields, processing, table_data, dialog >>

\* The INCRA branch without its own prefix: the direct mode's "output" is used.
IncraExtract_OutputPrefix(t) ==
    /\ At(t, "i_extract")
    /\ \E payload \in Payloads, rows \in 0..MaxRows :
          LET res == extract_table(w[t].pdf_path, w[t].api_key, payload, rows)
              r   == [Call(w[t], "extract") EXCEPT !.payload = payload]
          IN  IF res.ok
              THEN /\ table_data' = res.table
                   /\ Set(t, [r EXCEPT
                                 !.output_dir = Parent(w[t].pdf_path),
                                 !.prefixo = "output",
                                 !.pc = "count"])
              ELSE /\ table_data' = table_data
                   /\ Set(t, Raise(r, "ExtractionError"))
    /\ UNCHANGED << calc, gui_fields, progress_value, status_text, processing, dialog >>

\* self.table_data = extrair_memorial_incra(pdf_path, api_key)
\* output_dir = pdf_path.parent; prefixo = f"prenotacao_{prenotacao_formatada}"
IncraExtract(t) ==
    /\ At(t, "i_extract")
    /\ \E payload \in Payloads, rows \in 0..MaxRows :
          LET res == extract_table(w[t].pdf_path, w[t].api_key, payload, rows)
              r   == [Call(w[t], "extract") EXCEPT !.payload = payload]
          IN  IF res.ok
              THEN /\ table_data' = res.table
                   /\ Set(t, [r EXCEPT
                                 !.output_dir = Parent(w[t].pdf_path),
                                 !.prefixo = "prenotacao_" \o Str(w[t].formatada),
                                 !.pc = "count"])
              ELSE /\ table_data' = table_data
                   /\ Set(t, Raise(r, "ExtractionError"))
    /\ UNCHANGED << calc, gui_fields, progress_value, status_text, processing, dialog >>

\* ---- both modes
\* num_linhas = len(self.table_data.get('data', []))
\* self.update_progress(60, f"Dados extraidos: {num_linhas} linhas")
CountRows(t) ==
    /\ At(t, "count")
    /\ IF table_data.kind = "None"
       THEN /\ Set(t, Raise(w[t], "AttributeError"))
            /\ UNCHANGED << calc, progress_value, status_text >>
       ELSE LET status == "Dados extraidos: " \o ToString(table_data.data)
                                \o " linhas"
            IN  /\ update_progress(60, status)
                /\ Set(t, Emit(w[t], 60, status, "if_excel"))
    /\ UNCHANGED << calc, gui_fields, processing, table_data, dialog >>

\* if self.gerar_excel.get():
CheckExcel(t) ==
    /\ At(t, "if_excel")
    /\ Set(t, [w[t] EXCEPT !.pc = IF gerar_excel THEN "excel_progress" ELSE "if_word"])
    /\ UNCHANGED << calc, gui_fields, progress_value, status_text, processing,
                    table_data, dialog >>

ExcelProgress(t) ==
    /\ At(t, "excel_progress")
    /\ update_progress(70, "Gerando Excel...")
    /\ Set(t, Emit(w[t], 70, "Gerando Excel...", "excel"))
    /\ UNCHANGED << calc, gui_fields, processing, table_data, dialog >>

\* The renderers: create_excel_file / create_word_file (self.table_data, path).
\* A table that is None cannot be rendered; the destination may be unwritable.
Render(t, stage, ext, next) ==
    \E writable \in BOOLEAN :
       LET r    == Call(w[t], stage)
           path == <<w[t].output_dir, w[t].prefixo, ext>>
       IN  IF table_data.kind = "None"
           THEN Set(t, Raise(r, "AttributeError"))
           ELSE IF writable
           THEN Set(t, [r EXCEPT !.written = @ \cup {path},
                                 !.gerados = Append(@, path[2] \o ext),
                                 !.pc = next])
           ELSE Set(t, Raise(r, "OutputWriteError"))

\* create_excel_file(self.table_data, str(excel_path))
WriteExcel(t) ==
    /\ At(t, "excel")
    /\ Render(t, "excel", ".xlsx", "if_word")
    /\ UNCHANGED << calc, gui_fields, progress_value, status_text, processing,
                    table_data, dialog >>

\* if self.gerar_word.get():
CheckWord(t) ==
    /\ At(t, "if_word")
    /\ Set(t, [w[t] EXCEPT !.pc = IF gerar_word THEN "word_progress" ELSE "finish"])
    /\ UNCHANGED << calc, gui_fields, progress_value, status_text, processing,
                    table_data, dialog >>

WordProgress(t) ==
    /\ At(t, "word_progress")
    /\ update_progress(85, "Gerando Word...")
    /\ Set(t, Emit(w[t], 85, "Gerando Word...", "word"))
    /\ UNCHANGED << calc, gui_fields, processing, table_data, dialog >>

\* create_word_file(self.table_data, str(word_path))
WriteWord(t) ==
    /\ At(t, "word")
    /\ Render(t, "word", ".docx", "finish")
    /\ UNCHANGED << calc, gui_fields, progress_value, status_text, processing,
                    table_data, dialog >>

\* self.update_progress(100, "Concluido!") and the success message box.
Finish(t) ==
    /\ At(t, "finish")
    /\ update_progress(100, "Concluido!")
    /\ Set(t, [Emit(w[t], 100, "Concluido!", "finally") EXCEPT !.result = "Done"])
    /\ UNCHANGED << calc, gui_fields, processing, table_data, dialog >>

\* An except clause that leaves the progress display as the failed stage set it.
Except_KeepProgress(t) ==
    /\ At(t, "except")
    /\ Set(t, [w[t] EXCEPT !.pc = "finally", !.result = "Failed", !.err = w[t].exc])
    /\ UNCHANGED << calc, gui_fields, progress_value, status_text, processing,
                    table_data, dialog >>

\* An except clause that removes the files the run has written.
Except_Rollback(t) ==
    /\ At(t, "except")
    /\ update_progress(0, "Erro no processamento!")
    /\ Set(t, [Emit(w[t], 0, "Erro no processamento!", "finally") EXCEPT
                  !.result = "Failed", !.err = w[t].exc, !.written = {}])
    /\ UNCHANGED << calc, gui_fields, processing, table_data, dialog >>

\* except Exception as ex: the error is logged, progress is reset, the error
\* message box is scheduled.
Except(t) ==
    /\ At(t, "except")
    /\ update_progress(0, "Erro no processamento!")
    /\ Set(t, [Emit(w[t], 0, "Erro no processamento!", "finally") EXCEPT !.result = "Failed", !.err = w[t].exc])
    /\ UNCHANGED << calc, gui_fields, processing, table_data, dialog >>

\* A finally clause that does not clear self.processing.
Finally_KeepFlag(t) ==
    /\ At(t, "finally")
    /\ Set(t, [w[t] EXCEPT !.pc = "ended"])
    /\ UNCHANGED << calc, gui_fields, progress_value, status_text, processing,
                    table_data, dialog >>

\* finally: self.processing = False; the thread ends.
Finally(t) ==
    /\ At(t, "finally")
    /\ processing' = FALSE
    /\ Set(t, [w[t] EXCEPT !.pc = "ended"])
    /\ UNCHANGED << calc, gui_fields, progress_value, status_text, table_data, dialog >>

process_thread(t) ==
    \/ ReadApiKey(t)
    \/ ReadModo(t)
    \/ NormalReadPath(t)
    \/ NormalProgress(t)
    \/ NormalExtract(t)
    \/ IncraReadPrenotacao(t)
    \/ IncraProbeProgress(t)
    \/ IncraProbe(t)
    \/ IncraFormatProgress(t)
    \/ IncraFormat(t)
    \/ IncraFindProgress(t)
    \/ IncraFind(t)
    \/ IncraStageProgress(t)
    \/ IncraStage(t)
    \/ IncraConvertProgress(t)
    \/ IncraConvert(t)
    \/ IncraExtractProgress(t)
    \/ IncraExtract(t)
    \/ CountRows(t)
    \/ CheckExcel(t)
    \/ ExcelProgress(t)
    \/ WriteExcel(t)
    \/ CheckWord(t)
    \/ WordProgress(t)
    \/ WriteWord(t)
    \/ Finish(t)
    \/ Except(t)
    \/ Finally(t)

Worker == \E t \in Threads : process_thread(t)

Presentation ==
    \/ \E k \in ApiKeys : SetApiKey(k)
    \/ \E m \in {"normal", "incra"} : atualizar_modo(m)
    \/ \E p \in PdfPaths : select_pdf(p)
    \/ \E s \in ProtocolInputs : EditPrenotacao(s)
    \/ ToggleExcel
    \/ ToggleWord
    \/ clear_all
    \/ process_memorial

Next == Presentation \/ Worker

Spec == Init /\ [][Next]_vars

\* The worker is an OS thread: it is scheduled as long as it has a step to
\* take, and every stage call is a blocking call that returns or raises.
FairSpec == Spec /\ WF_vars(Worker)

\* ------------------------------------------- the pure functions on their own
\* Characters of the raw texts: two digits and a separator.
Alphabet == {"0", "9", "-"}

\* Every text of at most MaxLen characters, and the numbers of the scenarios.
RawInputs ==
    UNION { [1..n -> Alphabet] : n \in 0..MaxLen }
    \cup { <<"2", "2", "9", "8", "8", "5">>,
           <<"2", "2", "9", ".", "8", "8", "5">>,
           <<"2", "2", "9", "0", "0", "0">>,
           <<"2", "2", "9", "9", "9", "9">>,
           <<"2", "3", "0", "0", "0", "0">> }

pipeline == << gui_fields, progress_value, status_text, processing, table_data,
               dialog, w >>

FormatInit ==
    /\ calc \in { [NoCalc EXCEPT !.stage = "input", !.raw = s] : s \in RawInputs }
    /\ api_key = ""
    /\ modo_operacao = "incra"
    /\ pdf_path = NoPath
    /\ prenotacao = <<>>
    /\ gerar_excel = TRUE
    /\ gerar_word = TRUE
    /\ progress_value = 0
    /\ status_text = "Aguardando..."
    /\ processing = FALSE
    /\ table_data = None
    /\ dialog = "none"
    /\ w = [t \in Threads |-> Fresh]

\* prenotacao_formatada = formatar_prenotacao(prenotacao)
FormatRaw ==
    /\ calc.stage = "input"
    /\ calc' = [calc EXCEPT !.fmt = formatar_prenotacao(calc.raw),
                            !.stage = "formatted"]
    /\ UNCHANGED pipeline

\* The shard of the formatted number, as the network search computes it.
LocateShard ==
    /\ calc.stage = "formatted"
    /\ calc.fmt.ok
    /\ calc' = [calc EXCEPT !.shard = calcular_pasta_milhar(Num(calc.fmt.value)),
                            !.stage = "located"]
    /\ UNCHANGED pipeline

\* The formatter applied to its own result.
FormatAgain ==
    /\ calc.stage = "located"
    /\ calc' = [calc EXCEPT !.again = formatar_prenotacao(calc.fmt.value),
                            !.stage = "again"]
    /\ UNCHANGED pipeline

FormatNext == FormatRaw \/ LocateShard \/ FormatAgain

FormatSpec == FormatInit /\ [][FormatNext]_vars

\* ================================================================ claims
Elems(q) == {q[i] : i \in DOMAIN q}

IsPrefix(p, q) == Len(p) <= Len(q) /\ \A i \in DOMAIN p : p[i] = q[i]

Active == {t \in Threads : Running(t)}

\* C1: single-flight.  At most one worker is in flight, the in-flight flag is
\* set for as long as a worker is between its start and its end, and so a
\* process_memorial call made meanwhile is rejected and starts nothing.
C1_SingleFlight ==
    /\ Cardinality(Active) <= 1
    /\ Active # {} => processing

\* A start request was rejected while the worker was in the middle of a run.
C1_Witness ==
    /\ dialog = "aviso_em_andamento"
    /\ \E t \in Threads : Running(t) /\ w[t].trace # <<>>

\* The rendering stages run in this order; each is run only when selected.
Renderings == { <<"excel", "word">>, <<"excel">>, <<"word">>, <<>> }

\* tr is the beginning of a run through the stages before, then the renderers.
FollowsOrder(tr, before) == \E r \in Renderings : IsPrefix(tr, before \o r)

\* C2 (as claimed): in INCRA mode the stages run in the order formatting,
\* probe, find, staging, conversion, extraction, rendering, so that the
\* network store is not accessed before the protocol number is formatted.
C2_FormatFirst ==
    \A t \in Threads :
        w[t].mode = "incra" =>
            FollowsOrder(w[t].trace,
                         <<"format", "probe", "find", "stage", "convert", "extract">>)

\* C2 (amended): in INCRA mode the stages run strictly in the order probe,
\* formatting, find, staging, conversion, extraction, rendering, each after
\* the previous one completed; the probe precedes the formatting, find
\* follows it.
C2_ProbeFirst ==
    \A t \in Threads :
        w[t].mode = "incra" =>
            FollowsOrder(w[t].trace,
                         <<"probe", "format", "find", "stage", "convert", "extract">>)

\* An INCRA run went through every stage and ended Done.
C2_Witness ==
    \E t \in Threads :
        /\ w[t].mode = "incra"
        /\ w[t].result = "Done"
        /\ w[t].trace = <<"probe", "format", "find", "stage", "convert", "extract",
                          "excel", "word">>

\* C3 (as claimed): a start request in INCRA mode whose protocol number the
\* formatter rejects (no digit, or more than Width digits) starts no worker.
C3_InvalidNumberStartsNothing ==
    [][ \A t \in Threads :
           (~Running(t) /\ Running(t)' /\ modo_operacao = "incra")
               => formatar_prenotacao(prenotacao).ok ]_vars

Outputs(files) == {f \in files : f[3] \in {".xlsx", ".docx"}}

Stopped(t) == w[t].pc \in {"except", "finally", "ended"}

Over(t) == w[t].pc \in {"finally", "ended"}

\* C4: when the extraction service answers with a payload that has no table
\* field, the run fails with an extraction error, no renderer is entered and
\* no spreadsheet or document is written.
C4_NoTableFails ==
    \A t \in Threads :
        w[t].payload = "no_table" =>
            /\ Elems(w[t].trace) \cap {"excel", "word"} = {}
            /\ Outputs(w[t].written) = {}
            /\ w[t].gerados = <<>>
            /\ Stopped(t)
            /\ w[t].exc = "ExtractionError"
            /\ Over(t) => w[t].result = "Failed" /\ w[t].err = "ExtractionError"

\* A run whose extraction got a payload without table has ended Failed.
C4_Witness ==
    \E t \in Threads :
        /\ w[t].payload = "no_table"
        /\ w[t].pc = "ended"
        /\ w[t].result = "Failed"

\* C5: in INCRA mode a probe that returns false ends the run in Failed with
\* nothing but the probe executed and no file written; find is called only
\* in a run whose probe returned true.
C5_ProbeGuardsPipeline ==
    \A t \in Threads :
        /\ w[t].probe = "down" =>
              /\ w[t].trace = <<"probe">>
              /\ w[t].written = {}
              /\ Stopped(t)
              /\ Over(t) => w[t].result = "Failed"
        /\ "find" \in Elems(w[t].trace) => w[t].probe = "ok"

\* A run whose probe returned false has ended Failed.
C5_Witness ==
    \E t \in Threads :
        /\ w[t].probe = "down"
        /\ w[t].pc = "ended"
        /\ w[t].result = "Failed"

\* The inputs validate_inputs must refuse.
MissingInput ==
    \/ api_key = ""
    \/ modo_operacao = "normal" /\ pdf_path = NoPath
    \/ modo_operacao = "incra" /\ prenotacao = <<>>
    \/ ~gerar_excel /\ ~gerar_word

\* C6: with no run in flight and the credential absent, the source missing
\* or no output format selected, no step (process_memorial included) sets the
\* in-flight flag, creates a worker or performs any stage.
C6_MissingInputStartsNothing ==
    [][ (~processing /\ MissingInput) => (processing' = FALSE /\ w' = w) ]_vars

\* process_memorial has just refused inputs for one of the three reasons.
C6_Witness ==
    /\ dialog \in {"erro_api_key", "erro_sem_pdf", "erro_sem_prenotacao",
                   "aviso_sem_saida"}
    /\ MissingInput
    /\ ~processing
    /\ Active = {}

\* C7: when a stage of a run fails, the run goes to the except clause and
\* ends Failed with that error emitted, and from the failure on the run calls
\* no further stage and writes no further file.
C7_FailureStopsRun ==
    /\ [](\A t \in Threads :
             w[t].exc # "none" =>
                 /\ Stopped(t)
                 /\ Over(t) => w[t].result = "Failed" /\ w[t].err = w[t].exc)
    /\ [][ \A t \in Threads :
              (w[t].exc # "none" /\ w'[t].exc # "none") =>
                  /\ w'[t].trace = w[t].trace
                  /\ w'[t].written = w[t].written ]_vars

\* A run failed in the conversion, after three stages, and has ended Failed.
C7_Witness ==
    \E t \in Threads :
        /\ w[t].exc = "ConversionError"
        /\ w[t].trace = <<"probe", "format", "find", "stage", "convert">>
        /\ w[t].pc = "ended"
        /\ w[t].result = "Failed"
        /\ w[t].err = "ConversionError"

Values(q) == {q[i][1] : i \in DOMAIN q}

\* C8: whenever a run is in flight, a moment follows at which it has ended
\* (runs are single-flight, so no other run is in flight then), in Done or in
\* Failed and never in both, with the in-flight flag released; with no run in
\* flight the flag is clear, so that a start request with valid inputs is
\* accepted.
C8_RunsEnd ==
    /\ Active # {} ~> ( /\ Active = {}
                        /\ ~processing
                        /\ \E t \in Threads : w[t].result \in {"Done", "Failed"} )
    /\ [](\A t \in Threads :
             /\ w[t].pc = "ended" => w[t].result \in {"Done", "Failed"}
             /\ w[t].result = "Done" => w[t].exc = "none" /\ 0 \notin Values(w[t].emitted)
             /\ w[t].result = "Failed" => w[t].exc # "none" /\ 100 \notin Values(w[t].emitted))
    /\ [](Active = {} => ~processing)
    /\ [](Active = {} /\ ~MissingInput
              /\ (modo_operacao = "normal" => pdf_path \in ExistingFiles)
            => ENABLED ProcessMemorialStart)

\* A run has ended and the next start request will be accepted.
C8_Witness ==
    /\ \E t \in Threads : w[t].pc = "ended" /\ w[t].result \in {"Done", "Failed"}
    /\ Active = {}
    /\ ~processing
    /\ ENABLED ProcessMemorialStart

\* C9: a run that took the direct-PDF branch calls extraction and the
\* renderers only: no probe, formatting, find, staging or conversion, and no
\* staged or converted file.
C9_DirectSkipsRetrieval ==
    \A t \in Threads :
        w[t].mode = "normal" =>
            /\ Elems(w[t].trace) \cap {"probe", "format", "find", "stage", "convert"} = {}
            /\ FollowsOrder(w[t].trace, <<"extract">>)
            /\ w[t].written = Outputs(w[t].written)

\* A direct-mode run has ended Done after extraction and both renderers.
C9_Witness ==
    \E t \in Threads :
        /\ w[t].mode = "normal"
        /\ w[t].result = "Done"
        /\ w[t].trace = <<"extract", "excel", "word">>

\* The percentage process_thread announces a stage with.
ProgressOf(stage, mode) ==
    CASE stage = "probe"   -> 3
      [] stage = "format"  -> 5
      [] stage = "find"    -> 10
      [] stage = "stage"   -> 20
      [] stage = "convert" -> 30
      [] stage = "extract" -> IF mode = "normal" THEN 10 ELSE 40
      [] stage = "excel"   -> 70
      [] stage = "word"    -> 85

\* C10: whenever a stage has been called, the run has already emitted that
\* stage's progress percentage together with a status string.
C10_ProgressBeforeWork ==
    \A t \in Threads :
        \A i \in DOMAIN w[t].trace :
            \E j \in DOMAIN w[t].emitted :
                /\ w[t].emitted[j][1] = ProgressOf(w[t].trace[i], w[t].mode)
                /\ w[t].emitted[j][2] # ""

\* The conversion has just failed: its progress update is the one displayed.
C10_Witness ==
    \E t \in Threads :
        /\ w[t].pc = "except"
        /\ w[t].exc = "ConversionError"
        /\ progress_value = 30
        /\ status_text = "Convertendo TIFF -> PDF..."

\* C11: the step by which a run becomes Failed sets the progress value to 0
\* and the status to the terminal failure status, at whatever stage the run
\* failed.
C11_FailedResetsProgress ==
    [][ \A t \in Threads :
           (w[t].result # "Failed" /\ w'[t].result = "Failed") =>
               /\ progress_value' = 0
               /\ status_text' = "Erro no processamento!" ]_vars

\* A run failed in the last stage, the document renderer, after its progress
\* had reached 85: the display shows 0 and the failure status.
C11_Witness ==
    \E t \in Threads :
        /\ w[t].pc = "finally"
        /\ w[t].result = "Failed"
        /\ w[t].exc = "OutputWriteError"
        /\ 85 \in Values(w[t].emitted)
        /\ progress_value = 0
        /\ status_text = "Erro no processamento!"

\* C12 (as claimed): a step of the worker never writes the progress value or
\* the status text; they change only in steps of the presentation context.
C12_WorkerNeverWritesDisplay ==
    [][ (\E t \in Threads : Running(t) /\ w'[t] # w[t]) =>
            UNCHANGED << progress_value, status_text >> ]_vars

\* The artifact paths a run may write, by the mode it runs in.
ExpectedOutputs(r) ==
    LET dir  == Parent(r.pdf_path)
        stem == IF r.mode = "normal"
                THEN "output"
                ELSE "prenotacao_" \o Str(formatar_prenotacao(r.prenotacao).value)
    IN  { <<dir, stem, ".xlsx">>, <<dir, stem, ".docx">> }

\* C13: the artifacts of a direct-mode run are output.xlsx / output.docx in
\* the directory of the source PDF, those of an INCRA run are
\* prenotacao_<formatted number>.xlsx / .docx in the directory of the PDF the
\* run converted; the spreadsheet comes from the spreadsheet renderer, the
\* document from the document renderer.
C13_OutputNaming ==
    \A t \in Threads :
        LET outs == Outputs(w[t].written)
        IN  /\ outs \subseteq ExpectedOutputs(w[t])
            /\ Cardinality(outs) = Len(w[t].gerados)
            /\ \A f \in outs :
                  /\ f[3] = ".xlsx" => "excel" \in Elems(w[t].trace)
                  /\ f[3] = ".docx" => "word" \in Elems(w[t].trace)
            /\ outs # {} =>
                  IF w[t].mode = "normal"
                  THEN w[t].pdf_path \in ExistingFiles
                  ELSE w[t].pdf_path \in w[t].written /\ w[t].pdf_path[3] = ".pdf"

\* An INCRA run for "229.885" ended Done with both artifacts beside its PDF.
C13_Witness ==
    \E t \in Threads :
        /\ w[t].result = "Done"
        /\ w[t].mode = "incra"
        /\ w[t].written =
              { <<"Downloads/00229885", "00229885", ".tif">>,
                <<"Downloads/00229885", "00229885", ".pdf">>,
                <<"Downloads/00229885", "prenotacao_00229885", ".xlsx">>,
                <<"Downloads/00229885", "prenotacao_00229885", ".docx">> }

\* The digits of a raw text, found position by position.
DigitPositions(raw) == {i \in DOMAIN raw : raw[i] \in Digits}

NthDigit(raw, k) ==
    raw[CHOOSE i \in DigitPositions(raw) :
            Cardinality({j \in DigitPositions(raw) : j <= i}) = k]

\* C14: a raw text with 1 to 8 digits among any separators is formatted to
\* the 8 characters made of leading zeros followed by those digits in their
\* order; a text with no digit or with more than 8 digits is refused.
C14_FormatPadsOrFails ==
    calc.stage \notin {"idle", "input"} =>
        LET d == Cardinality(DigitPositions(calc.raw))
            v == calc.fmt.value
        IN  IF d \in 1..8
            THEN /\ calc.fmt.ok
                 /\ Len(v) = 8
                 /\ \A i \in 1..(8 - d) : v[i] = "0"
                 /\ \A k \in 1..d : v[8 - d + k] = NthDigit(calc.raw, k)
            ELSE ~calc.fmt.ok

\* "229.885", six digits around a separator, was formatted to "00229885".
C14_Witness ==
    /\ calc.stage = "formatted"
    /\ calc.raw = <<"2", "2", "9", ".", "8", "8", "5">>
    /\ calc.fmt.ok
    /\ Str(calc.fmt.value) = "00229885"

\* C15: the shard of n is the multiple of 1000 with shard <= n < shard + 1000,
\* so a whole thousand-range shares one folder and the next thousand starts
\* another: 229000 and 229999 share a folder, 230000 has another, and 229885
\* is formatted to 00229885 and lands in folder 229000.
C15_ShardOfThousand ==
    /\ calc.stage \in {"located", "again"} =>
          LET n == Num(calc.fmt.value)
          IN  /\ calc.shard % 1000 = 0
              /\ calc.shard <= n
              /\ n < calc.shard + 1000
    /\ calcular_pasta_milhar(229000) = calcular_pasta_milhar(229999)
    /\ calcular_pasta_milhar(230000) # calcular_pasta_milhar(229000)
    /\ (calc.stage = "located" /\ calc.raw = <<"2", "2", "9", "8", "8", "5">>) =>
          Str(calc.fmt.value) = "00229885" /\ calc.shard = 229000

\* The first number of a range, 229000, was located in its own folder.
C15_Witness ==
    /\ calc.stage = "located"
    /\ calc.raw = <<"2", "2", "9", "0", "0", "0">>
    /\ calc.shard = 229000

\* C16: the formatter applied to a result of its own succeeds and returns
\* that result.
C16_FormatIdempotent ==
    calc.stage = "again" =>
        /\ calc.again.ok
        /\ calc.again.value = calc.fmt.value

\* A text of exactly eight digits was formatted twice.
C16_Witness ==
    /\ calc.stage = "again"
    /\ calc.raw = <<"9", "0", "-", "9", "9", "0", "9", "0", "9">>
    /\ calc.again.ok
    /\ Str(calc.again.value) = "90990909"

\* The positions of process_thread between the extraction and the last read
\* of self.table_data by a renderer.
Rendering == {"count", "if_excel", "excel_progress", "excel", "if_word",
              "word_progress", "word"}

\* C17: from the end of the extraction stage until the renderers have read
\* it, no step of the program replaces or clears the extracted table.
C17_TableImmutable ==
    [][ (\E t \in Threads : w[t].pc \in Rendering) =>
            table_data' = table_data ]_vars

\* C18: a run that has reached Done has written at least one artifact (it
\* wrote exactly the artifacts selected at its start request, and
\* validate_inputs accepts no empty selection).
C18_DoneWroteRequested ==
    \A t \in Threads :
        w[t].result = "Done" => Outputs(w[t].written) # {}

\* C19: a failed run ends in Failed with every file it wrote still there: no
\* step of a run that has left its try body removes a file, and a run whose
\* document renderer failed after the spreadsheet renderer still has the
\* spreadsheet.
C19_NoRollback ==
    /\ [](\A t \in Threads :
             (w[t].exc # "none" /\ Over(t)) =>
                 /\ w[t].result = "Failed"
                 /\ ("excel" \in Elems(w[t].trace) /\ w[t].trace # <<>>
                        /\ w[t].trace[Len(w[t].trace)] = "word") =>
                       <<w[t].output_dir, w[t].prefixo, ".xlsx">> \in w[t].written)
    /\ [][ \A t \in Threads :
              (Stopped(t) /\ w'[t].pc \in {"except", "finally", "ended"}) =>
                  w[t].written \subseteq w'[t].written ]_vars

\* The document renderer failed after the spreadsheet was written; the run
\* has ended Failed and the spreadsheet is still there.
C19_Witness ==
    \E t \in Threads :
        /\ w[t].pc = "ended"
        /\ w[t].mode = "normal"
        /\ w[t].exc = "OutputWriteError"
        /\ w[t].trace = <<"extract", "excel", "word">>
        /\ w[t].result = "Failed"
        /\ Outputs(w[t].written) = {<<"docs", "output", ".xlsx">>}

\* C20: a run never calls a stage of the INCRA mode with an empty protocol
\* number, nor the extraction of the direct mode with a path that
\* validate_inputs would refuse.
C20_RunsValidatedInputs ==
    \A t \in Threads :
        /\ "probe" \in Elems(w[t].trace) => w[t].prenotacao # <<>>
        /\ (w[t].mode = "normal" /\ "extract" \in Elems(w[t].trace)) =>
               w[t].pdf_path \in ExistingFiles

\* C21: while a run is in flight the displayed progress stays within 0..100,
\* becomes 100 only in the step that makes the run Done, and decreases only in
\* the step that makes the run Failed, where it becomes 0.
C21_ProgressMonotone ==
    [][ (\E t \in Threads : Running(t)) =>
            /\ progress_value' \in 0..100
            /\ (progress_value' = 100 /\ progress_value # 100) =>
                   \E t \in Threads :
                       w[t].result # "Done" /\ w'[t].result = "Done"
            /\ progress_value' < progress_value =>
                   /\ progress_value' = 0
                   /\ \E t \in Threads :
                          w[t].result # "Failed" /\ w'[t].result = "Failed" ]_vars

\* C22: in an INCRA run whose search has returned no file, after a probe that
\* succeeded, the search is the last stage called: nothing is staged,
\* converted, extracted or rendered, no file is written, and the run ends in
\* Failed with the not-found error.
C22_NotFoundFails ==
    \A t \in Threads :
        ("find" \in Elems(w[t].trace) /\ w[t].arquivo = NoPath) =>
            /\ w[t].exc = "NotFound"
            /\ w[t].trace = <<"probe", "format", "find">>
            /\ w[t].written = {}
            /\ w[t].gerados = <<>>
            /\ Stopped(t)
            /\ Over(t) => w[t].result = "Failed" /\ w[t].err = "NotFound"

\* A search that found nothing has ended its run Failed, the progress reset
\* after the search's 10 per cent.
C22_Witness ==
    \E t \in Threads :
        /\ w[t].pc = "ended"
        /\ w[t].mode = "incra"
        /\ w[t].probe = "ok"
        /\ w[t].exc = "NotFound"
        /\ w[t].trace = <<"probe", "format", "find">>
        /\ Values(w[t].emitted) = {3, 5, 10, 0}
        /\ w[t].result = "Failed"
        /\ w[t].err = "NotFound"

====
